---- MODULE Spec2Model ----
(***************************************************************************)
(* Gauss-Legendre computation of pi with a thread pool per round           *)
(* (gauss_legendre_pi.py and gauss_legendre_pi_multithread_Version2.py,    *)
(* which hold the same code).                                              *)
(*                                                                         *)
(* The program's numbers are decimal.Decimal values.  A Decimal is         *)
(* modelled as [sign, coef, exp]: value = (-1)^sign * coef * 10^exp, the   *)
(* coefficient being a natural number of arbitrary size.  A natural is a   *)
(* sequence of limbs in radix 1000, least significant limb first, with no  *)
(* zero limb at the top (<<>> is 0).                                       *)
(*                                                                         *)
(* The parameters of the arithmetic operators are named u, v, h, pr, so    *)
(* that none of them bears the name of a variable of the program.          *)
(***************************************************************************)
EXTENDS Integers, Sequences, FiniteSets, TLC

Max(x, y) == IF x >= y THEN x ELSE y
Min(x, y) == IF x <= y THEN x ELSE y

(***************************************************************************)
(* Natural numbers of arbitrary size.                                      *)
(***************************************************************************)
P10(r) == CASE r = 0 -> 1 [] r = 1 -> 10 [] r = 2 -> 100 [] OTHER -> 1000

\* A sequence given as a function [i \in 1..k |-> e] is made a tuple of values, so
\* that its elements are computed once.
AsTuple(f) == <<>> \o f

Limb(n, h) == IF h >= 1 /\ h <= Len(n) THEN n[h] ELSE 0

\* n without the zero limbs at its top
NTrim(n) ==
    LET z == CHOOSE d \in 0..Len(n) :
                 /\ d = Len(n) \/ n[Len(n) - d] # 0
                 /\ \A e \in 0..(d - 1) : n[Len(n) - e] = 0
    IN  SubSeq(n, 1, Len(n) - z)

\* The carry that enters limb h of w, the entries of w lying in 0..1998: the
\* nearest limb below h that is not 999 decides it.
CarryIn(w, h) ==
    LET d == CHOOSE d \in 1..h :
                 /\ d = h \/ w[h - d] # 999
                 /\ \A e \in 1..(d - 1) : w[h - e] = 999
    IN  IF d < h /\ w[h - d] >= 1000 THEN 1 ELSE 0

\* the limbs of the value of w (entries in 0..1998), one more limb than w has
NResolve(w) == AsTuple([h \in 1..(Len(w) + 1) |-> (Limb(w, h) + CarryIn(w, h)) % 1000])

\* entries below 10^6 are brought into 0..1998, the value being kept
NSplit(raw) ==
    AsTuple([h \in 1..(Len(raw) + 1) |-> (Limb(raw, h) % 1000) + (Limb(raw, h - 1) \div 1000)])

\* entries in 0..2^31-1 are brought below 10^6, the value being kept
NSplit3(raw) ==
    AsTuple([h \in 1..(Len(raw) + 2) |->
        (Limb(raw, h) % 1000) + ((Limb(raw, h - 1) \div 1000) % 1000)
        + (Limb(raw, h - 2) \div 1000000)])

\* the natural number whose limbs, not yet carried, are raw (entries >= 0)
NNorm(raw) == NTrim(NResolve(NSplit(NSplit3(raw))))

NFromInt(k) == NNorm(<<k>>)

\* -1, 0, 1 as u < v, u = v, u > v
NCmp(u, v) ==
    IF Len(u) > Len(v) THEN 1
    ELSE IF Len(u) < Len(v) THEN -1
    ELSE LET n == Len(u)
             z == CHOOSE d \in 0..n :
                      /\ d = n \/ u[n - d] # v[n - d]
                      /\ \A e \in 0..(d - 1) : u[n - e] = v[n - e]
         IN  IF z = n THEN 0 ELSE IF u[n - z] > v[n - z] THEN 1 ELSE -1

NAdd(u, v) ==
    NTrim(NResolve(AsTuple([h \in 1..Max(Len(u), Len(v)) |-> Limb(u, h) + Limb(v, h)])))

\* u - v for u >= v: u plus the complement of v, the carry out of the top
\* limb being dropped
NSub(u, v) ==
    NTrim(SubSeq(NResolve(AsTuple([h \in 1..Len(u) |->
              u[h] + 999 - Limb(v, h) + (IF h = 1 THEN 1 ELSE 0)])), 1, Len(u)))

\* u * k for k in 0..1000
NMulSmall(u, k) == NTrim(NResolve(NSplit(AsTuple([h \in 1..Len(u) |-> u[h] * k]))))

\* the sum of u[j] * v[k + 1 - j] for j in lo..hi, lo <= hi
RECURSIVE NColSum(_, _, _, _, _)
NColSum(u, v, k, lo, hi) ==
    IF lo = hi THEN u[lo] * v[k + 1 - lo]
    ELSE LET mid == (lo + hi) \div 2
         IN  NColSum(u, v, k, lo, mid) + NColSum(u, v, k, mid + 1, hi)

NMul(u, v) ==
    IF Len(u) = 0 \/ Len(v) = 0 THEN <<>>
    ELSE NNorm(AsTuple([k \in 1..(Len(u) + Len(v) - 1) |->
                  NColSum(u, v, k, Max(1, k + 1 - Len(v)), Min(k, Len(u)))]))

\* number of decimal digits (0 has none)
NDigits(n) ==
    IF Len(n) = 0 THEN 0
    ELSE 3 * (Len(n) - 1)
         + (IF n[Len(n)] < 10 THEN 1 ELSE IF n[Len(n)] < 100 THEN 2 ELSE 3)

\* n * 10^k
NShl10(n, k) ==
    IF Len(n) = 0 THEN <<>>
    ELSE AsTuple([h \in 1..(k \div 3) |-> 0]) \o NMulSmall(n, P10(k % 3))

\* n \div 10^k
NShr10(n, k) ==
    LET q == k \div 3
        r == k % 3
    IN  IF q >= Len(n) THEN <<>>
        ELSE NTrim(AsTuple([h \in 1..(Len(n) - q) |->
                      (Limb(n, h + q + 1) % P10(r)) * P10(3 - r)
                      + (n[h + q] \div P10(r))]))

\* n % 10^k
NMod10(n, k) ==
    LET q == k \div 3
        r == k % 3
    IN  IF q >= Len(n) THEN n
        ELSE NTrim(Append(SubSeq(n, 1, q), n[q + 1] % P10(r)))

NIsOdd(n) == Limb(n, 1) % 2 = 1

\* the value of the limbs h, h-1, h-2 of n (below 10^9)
NTop3(n, h) == Limb(n, h) * 1000000 + Limb(n, h - 1) * 1000 + Limb(n, h - 2)

\* Subtracts v from r while r >= v, counting in q: the last steps of a
\* quotient digit found from an estimate that is never too large.
RECURSIVE NFixDigit(_, _, _)
NFixDigit(r, v, q) ==
    IF NCmp(r, v) >= 0 THEN NFixDigit(NSub(r, v), v, q + 1) ELSE [q |-> q, r |-> r]

\* the quotient digit of r by v from the estimate est <= r \div v
NDivDigitFrom(r, v, est) == NFixDigit(NSub(r, NMulSmall(v, est)), v, est)

\* one digit of the long division: r < v * 1000, result q = r \div v, r % v
NDivDigit(r, v) ==
    NDivDigitFrom(r, v,
        IF Len(v) = 1
        THEN (Limb(r, 2) * 1000 + Limb(r, 1)) \div v[1]
        ELSE NTop3(r, Len(v) + 1) \div (v[Len(v)] * 1000 + v[Len(v) - 1] + 1))

\* Long division of the limbs h, h-1, ..., 1 of u, the limbs above them having
\* left the remainder r: the quotient digits (most significant first), then
\* the last remainder.
RECURSIVE NDivLoop(_, _, _, _)
RECURSIVE NDivLoopStep(_, _, _, _)
NDivLoopStep(u, v, h, d) == <<d.q>> \o NDivLoop(u, v, h - 1, d.r)

NDivLoop(u, v, h, r) ==
    IF h = 0 THEN <<r>> ELSE NDivLoopStep(u, v, h, NDivDigit(NTrim(<<u[h]>> \o r), v))

\* the m quotient digits and the remainder that NDivLoop gave, as a record
NDivPack(qr, m) ==
    [q |-> NTrim(AsTuple([h \in 1..m |-> qr[m + 1 - h]])), r |-> qr[m + 1]]

\* [q |-> u \div v, r |-> u % v] for v > 0; the top Len(v) - 1 limbs of u are
\* the first remainder
NDivMod(u, v) ==
    IF Len(u) < Len(v) THEN [q |-> <<>>, r |-> u]
    ELSE NDivPack(NDivLoop(u, v, Len(u) - Len(v) + 1,
                           NTrim(SubSeq(u, Len(u) - Len(v) + 2, Len(u)))),
                  Len(u) - Len(v) + 1)

(***************************************************************************)
(* decimal.Decimal under a context of precision pr, rounding               *)
(* ROUND_HALF_EVEN (the default context's rounding; the program changes    *)
(* only prec).  Every operation computes the exact result with the ideal   *)
(* exponent and rounds it to pr digits.                                    *)
(***************************************************************************)
Dec(sign, coef, exp) == [sign |-> sign, coef |-> coef, exp |-> exp]

\* Decimal(k) for an int k
DecInt(k) == Dec(IF k < 0 THEN 1 ELSE 0, NFromInt(IF k < 0 THEN 0 - k ELSE k), 0)

IsZero(x) == Len(x.coef) = 0

DecNeg(x) == Dec(1 - x.sign, x.coef, x.exp)

\* the coefficient q1 after rounding had pr digits at most before the
\* round-up: if the carry made it longer, its last digit (a zero) goes
FixCarry(sign, q1, e, pr) ==
    IF NDigits(q1) > pr THEN Dec(sign, NShr10(q1, 1), e + 1) ELSE Dec(sign, q1, e)

\* q is the kept part; c compares the dropped part with one half (-1, 0, 1)
FixHalfEven(sign, q, c, e, pr) ==
    FixCarry(sign, IF c > 0 \/ (c = 0 /\ NIsOdd(q)) THEN NAdd(q, <<1>>) ELSE q, e, pr)

\* the last k > 0 digits of the coefficient are dropped
FixDrop(x, k, pr) ==
    FixHalfEven(x.sign, NShr10(x.coef, k),
                NCmp(NMod10(x.coef, k), NShl10(<<5>>, k - 1)), x.exp + k, pr)

\* Decimal._fix: round to the context precision
Fix(x, pr) == IF NDigits(x.coef) <= pr THEN x ELSE FixDrop(x, NDigits(x.coef) - pr, pr)

\* the exact sum of two numbers of different signs, c comparing cx with cy
DecAddDiff(sx, cx, sy, cy, e, c) ==
    IF c = 0 THEN Dec(0, <<>>, e)
    ELSE IF c > 0 THEN Dec(sx, NSub(cx, cy), e)
    ELSE Dec(sy, NSub(cy, cx), e)

\* the exact sum of (sx, cx) and (sy, cy), coefficients at the same exponent e
DecAddCoef(sx, cx, sy, cy, e) ==
    IF sx = sy THEN Dec(sx, NAdd(cx, cy), e)
    ELSE DecAddDiff(sx, cx, sy, cy, e, NCmp(cx, cy))

DecAddAt(x, y, e, pr) ==
    Fix(DecAddCoef(x.sign, NShl10(x.coef, x.exp - e), y.sign, NShl10(y.coef, y.exp - e), e),
        pr)

\* Decimal.__add__
DecAdd(x, y, pr) == DecAddAt(x, y, Min(x.exp, y.exp), pr)

\* Decimal.__sub__
DecSub(x, y, pr) == DecAdd(x, DecNeg(y), pr)

\* Decimal.__mul__
DecMul(x, y, pr) ==
    Fix(Dec((x.sign + y.sign) % 2, NMul(x.coef, y.coef), x.exp + y.exp), pr)

\* Decimal.__pow__ with the exponent 2: the square is rounded to pr + 3
\* digits and the result of that to pr digits.
DecPow2(x, pr) ==
    Fix(Fix(Dec(0, NMul(x.coef, x.coef), x.exp + x.exp), pr + 3), pr)

\* the number of zero digits at the low end of c > 0
NLowZerosAt(c, j) ==
    3 * (j - 1) + (IF c[j] % 100 = 0 THEN 2 ELSE IF c[j] % 10 = 0 THEN 1 ELSE 0)

NLowZeros(c) ==
    NLowZerosAt(c, CHOOSE d \in 1..Len(c) : c[d] # 0 /\ \A e \in 1..(d - 1) : c[e] = 0)

DecShr(sign, c, e, z) == Dec(sign, NShr10(c, z), e + z)

\* "while exp < ideal_exp and coeff % 10 == 0: coeff //= 10; exp += 1": an
\* exact quotient is brought as close to the ideal exponent as its trailing
\* zeros allow
StripZeros(sign, c, e, ideal) ==
    DecShr(sign, c, e, IF Len(c) = 0 THEN 0 ELSE Min(Max(ideal - e, 0), NLowZeros(c)))

\* the quotient dm.q at the exponent e, dm.r being what the division left: the
\* last digit of an inexact quotient is made to show it ("if remainder and
\* coeff % 5 == 0: coeff += 1")
DecDivQuot(sign, dm, e, ideal, pr) ==
    Fix(IF Len(dm.r) > 0
        THEN Dec(sign, IF Limb(dm.q, 1) % 5 = 0 THEN NAdd(dm.q, <<1>>) ELSE dm.q, e)
        ELSE StripZeros(sign, dm.q, e, ideal),
        pr)

\* the division with the dividend moved by shift digits
DecDivShift(x, y, shift, pr) ==
    DecDivQuot((x.sign + y.sign) % 2,
               NDivMod(NShl10(x.coef, Max(shift, 0)), NShl10(y.coef, Max(0 - shift, 0))),
               x.exp - y.exp - shift, x.exp - y.exp, pr)

\* Decimal.__truediv__ for a divisor that is not zero
DecDiv(x, y, pr) ==
    IF IsZero(x) THEN Dec((x.sign + y.sign) % 2, <<>>, x.exp - y.exp)
    ELSE DecDivShift(x, y, NDigits(y.coef) - NDigits(x.coef) + pr + 1, pr)

\* the coefficients at the same exponent e
DecEqAt(x, y, e) == NShl10(x.coef, x.exp - e) = NShl10(y.coef, y.exp - e)

\* Decimal.__eq__: numeric equality, whatever the exponents
DecEq(x, y) ==
    \/ IsZero(x) /\ IsZero(y)
    \/ x.sign = y.sign /\ ~IsZero(x) /\ ~IsZero(y) /\ DecEqAt(x, y, Min(x.exp, y.exp))

\* x > 0
DecPos(x) == x.sign = 0 /\ ~IsZero(x)

(***************************************************************************)
(* str(Decimal), as the sequence of its characters.                        *)
(***************************************************************************)
DigitChar(d) == <<"0", "1", "2", "3", "4", "5", "6", "7", "8", "9">>[d + 1]

\* the digit of n at 10^pos
NDigitAt(n, pos) == (n[(pos \div 3) + 1] \div P10(pos % 3)) % 10

\* the decimal digits of n, most significant first ("0" for zero)
NChars(n) ==
    IF Len(n) = 0 THEN <<"0">>
    ELSE AsTuple([j \in 1..NDigits(n) |-> DigitChar(NDigitAt(n, NDigits(n) - j))])

Zeros(k) == AsTuple([h \in 1..k |-> "0"])

\* the exponent part: nothing for 0, else E+e or E-e
DecStrExp(e) ==
    IF e = 0 THEN <<>>
    ELSE <<"E", IF e < 0 THEN "-" ELSE "+">> \o NChars(NFromInt(IF e < 0 THEN 0 - e ELSE e))

\* the digits int with the point after dotplace of them
DecStrDot(int, dotplace) ==
    IF dotplace <= 0 THEN <<"0", ".">> \o Zeros(0 - dotplace) \o int
    ELSE IF dotplace >= Len(int) THEN int \o Zeros(dotplace - Len(int))
    ELSE SubSeq(int, 1, dotplace) \o <<".">> \o SubSeq(int, dotplace + 1, Len(int))

DecStrAt(sign, int, leftdigits, dotplace) ==
    (IF sign = 1 THEN <<"-">> ELSE <<>>) \o DecStrDot(int, dotplace)
    \o DecStrExp(leftdigits - dotplace)

DecStrOf(sign, int, exp) ==
    DecStrAt(sign, int, exp + Len(int),
             IF exp <= 0 /\ exp + Len(int) > 0 - 6 THEN exp + Len(int) ELSE 1)

\* Decimal.__str__
DecStr(x) == DecStrOf(x.sign, NChars(x.coef), x.exp)

\* s[:k] of a string
Prefix(s, k) == SubSeq(s, 1, Min(k, Len(s)))

(***************************************************************************)
(* sqrt_decimal(x, context)                                                *)
(***************************************************************************)
\* line 10: s = x / 2
NewtonStart(x, pr) == DecDiv(x, DecInt(2), pr)

\* line 14, one pass of the loop body: s = (s + x / s) / 2, for s not zero
NewtonStep(s, x, pr) == DecDiv(DecAdd(s, DecDiv(x, s, pr), pr), DecInt(2), pr)

\* The loop "while last_s != s" run from s, the value of last_s being the
\* one before it; the loop ends when a pass leaves s unchanged.
RECURSIVE NewtonLoop(_, _, _)
RECURSIVE NewtonNext(_, _, _, _)
NewtonNext(s, s1, x, pr) == IF DecEq(s1, s) THEN s1 ELSE NewtonLoop(s1, x, pr)

NewtonLoop(s, x, pr) == NewtonNext(s, NewtonStep(s, x, pr), x, pr)

\* sqrt_decimal for x > 0 under a precision at which the loop ends
SqrtDecimal(x, pr) == Fix(NewtonLoop(NewtonStart(x, pr), x, pr), pr)

(***************************************************************************)
(* Python floats (IEEE 754 binary64) as far as the program uses them: a    *)
(* float is [m, e] with the value m * 2^e, m a natural number below 2^53   *)
(* (or 2^53 itself after a round-up, which is the same value as 2^52 with  *)
(* e + 1).  Every operation is the exact result rounded to the nearest     *)
(* float, ties to even.  digits ** 0.5 is taken to be correctly rounded.   *)
(***************************************************************************)
RECURSIVE NPow2Rec(_)
NPow2Rec(k) == IF k < 10 THEN <<2^k>> ELSE NMul(NPow2Rec(k - 10), <<24, 1>>)

\* the powers of two the float operations of the program need, computed once
Pow2Table == AsTuple([k \in 1..130 |-> NPow2Rec(k - 1)])

NPow2(k) == Pow2Table[k + 1]

\* the number of binary digits of n > 0, which is one of lo..hi
NBitsIn(n, lo, hi) ==
    CHOOSE k \in lo..hi : /\ NCmp(NPow2(k), n) > 0
                          /\ k = 0 \/ NCmp(NPow2(k - 1), n) <= 0

\* the number of binary digits of n > 0: a number of dd decimal digits lies
\* in 10^(dd-1) .. 10^dd - 1
NBits(n) ==
    NBitsIn(n, ((NDigits(n) - 1) * 3321) \div 1000, ((NDigits(n) * 3322) \div 1000) + 1)

\* n as a TLA+ integer, for n < 2^31
NToInt(n) == Limb(n, 1) + 1000 * Limb(n, 2) + 1000000 * Limb(n, 3) + 1000000000 * Limb(n, 4)

\* dm.q is the mantissa and dm.r the bits dropped below it, half being the
\* weight of the first of them; sticky: something lies below those bits
FRoundHalfEven(dm, sticky, half, e) ==
    [m |-> IF \/ NToInt(dm.r) > half
              \/ NToInt(dm.r) = half /\ (sticky \/ NIsOdd(dm.q))
           THEN NAdd(dm.q, <<1>>) ELSE dm.q,
     e |-> e]

\* q has k bits more than a mantissa
FRoundCut(q, sticky, k, e) == FRoundHalfEven(NDivMod(q, <<2^k>>), sticky, 2^(k - 1), e + k)

\* dm.q = floor(value / 2^e) has 55 or 56 bits
FRoundQuot(dm, e) ==
    FRoundCut(dm.q, Len(dm.r) > 0, IF NCmp(dm.q, NPow2(55)) < 0 THEN 2 ELSE 3, e)

FRoundAt(num, den, s) == FRoundQuot(NDivMod(NMul(num, NPow2(s)), den), 0 - s)

\* the float nearest to num / den (naturals, not zero; num / den < 2^54), ties
\* to even
FRound(num, den) == FRoundAt(num, den, 55 + NBits(den) - NBits(num))

\* j / k for ints j, k > 0
FDivInt(j, k) == FRound(NFromInt(j), NFromInt(k))

\* the float 0.0
FZero == [m |-> <<>>, e |-> 0 - 1]

\* x * k for a float x in (0, 1] and a natural k (k itself is a float exactly)
FMulNat(x, k) == IF Len(k) = 0 THEN FZero ELSE FRound(NMul(x.m, k), NPow2(0 - x.e))

\* the integer square root of n > 0: Newton's iteration from x >= sqrt(n)
RECURSIVE NISqrtFrom(_, _)
RECURSIVE NISqrtNext(_, _, _)
NISqrtNext(n, x, y) == IF NCmp(y, x) < 0 THEN NISqrtFrom(n, y) ELSE x

NISqrtFrom(n, x) == NISqrtNext(n, x, NDivMod(NAdd(x, NDivMod(n, x).q), <<2>>).q)

NISqrt(n) == NISqrtFrom(n, NPow2((NBits(n) + 1) \div 2))

\* r = floor(sqrt(n)): the mantissa is r or r + 1, whichever is nearer
FSqrtPick(n, r, e) ==
    [m |-> IF NCmp(n, NAdd(NMul(r, r), r)) > 0 THEN NAdd(r, <<1>>) ELSE r, e |-> e]

FSqrtOf(n, e) == FSqrtPick(n, NISqrt(n), e)

FSqrtAt(nd, e) == FSqrtOf(NMul(nd, NPow2(0 - 2 * e)), e)

\* d ** 0.5 for an int d >= 0
FSqrtInt(d) ==
    IF d = 0 THEN FZero
    ELSE FSqrtAt(NFromInt(d), ((NBits(NFromInt(d)) - 1) \div 2) - 52)

\* 2.5 * x for a float x that is 0.0 or >= 1: 2.5 is the float 5 * 2^-1
FMulTwoAndHalf(x) ==
    IF Len(x.m) = 0 THEN FZero ELSE FRound(NMulSmall(x.m, 5), NPow2(1 - x.e))

\* int(x) for a float x >= 0 with x.e < 0: truncation
FTrunc(x) == NToInt(NDivMod(x.m, NPow2(0 - x.e)).q)

(***************************************************************************)
(* The round count and the progress estimate.                              *)
(***************************************************************************)
Guard == 10
DefaultPrec == 28
MinIters == 10
MaxIters == 40

\* what line 24 would give if the product were rounded to the nearest integer
\* (halves upwards) instead of being cut
TotalItersRounded(d) ==
    CHOOSE k \in 0..(d + 2) : (2 * k - 1) * (2 * k - 1) <= 25 * d
                              /\ 25 * d < (2 * k + 1) * (2 * k + 1)

\* line 24: int(2.5 * (digits**0.5))
TotalItersRaw(d) == FTrunc(FMulTwoAndHalf(FSqrtInt(d)))

\* line 25 without its min(..., 40)
ClampBelowOnly(n) == Max(n, MinIters)

\* line 25: min(max(total_iters, 10), 40)
Clamp(n) == Min(Max(n, MinIters), MaxIters)

TotalIters(d) == Clamp(TotalItersRaw(d))

\* what line 47 would give if the quotient were rounded to the nearest
\* integer (halves upwards) instead of being cut
EstDigitsRounded(h, n, d) == (2 * (h + 1) * d + n) \div (2 * n)

\* line 47: int((i + 1) / total_iters * digits), h being the value of i
EstDigits(h, n, d) == FTrunc(FMulNat(FDivInt(h + 1, n), NFromInt(d)))

(***************************************************************************)
(* The state of a run of main(): the engine gauss_legendre_pi on the main  *)
(* thread, the ThreadPoolExecutor of the current round with its worker     *)
(* threads, and the progress dict the callback writes.                     *)
(***************************************************************************)
VARIABLES
    digits,         \* args.digits
    n_threads,      \* args.threads
    pc,             \* where the engine is
    prec,           \* getcontext().prec of the main thread
    a, b, t, p,     \* the Gauss-Legendre state
    total_iters,
    i,              \* the loop variable: the number of rounds completed
    results,        \* [a_next, b_next]: what fut.result() gave
    pi_str,         \* the string gauss_legendre_pi returns
    queue,          \* the executor's work queue
    futures,        \* name -> [done, value]
    workers,        \* slot -> [st, task, prec]: the pool's threads
    idle_sem,       \* the executor's count of idle threads
    pool_shutdown,  \* the executor's shutdown flag
    cb,             \* the arguments of the progress_callback call in progress
    state,          \* main's progress dict: iter, digits, elapsed
    hist,           \* history: what happened in the run so far
    ref,            \* history: the same rounds done by one thread, task by task
    sq,             \* a call of sqrt_decimal followed step by step
    fn,             \* the round count and the estimates of one digits value
    err,            \* the exception that left gauss_legendre_pi or main, or "none"
    drv,            \* main(): where it is, and what it has printed
    mon             \* progress_thread_fn: where it is, its locals, its last line

vars == <<digits, n_threads, pc, prec, a, b, t, p, total_iters, i, results, pi_str,
          queue, futures, workers, idle_sem, pool_shutdown, cb, state, hist, ref,
          sq, fn, err, drv, mon>>

\* the digits and thread counts of the runs that are followed
DigitsSet == {1, 5, 10, 50}
ThreadsSet == {1, 2, 8}

\* the two submit calls of a round; a submit starts one thread at most, and the
\* slots leave room for one thread more than that
TasksPerRound == 2
Slots == 1..(TasksPerRound + 1)
TaskNames == {"a_next", "b_next"}

\* stands for a Decimal that is not there yet
NoDec == Dec(0, <<>>, 0)
NoTask == [name |-> "none", x |-> NoDec]
NoWorker == [st |-> "none", task |-> NoTask, prec |-> 0]
NoFuture == [done |-> FALSE, value |-> NoDec, exc |-> "none"]

\* what the history keeps
NoHist ==
    [updates    |-> 0,                              \* rounds whose update is done
     task_round |-> [n \in TaskNames |-> 0 - 1],    \* i when the task was submitted
     task_read  |-> [n \in TaskNames |-> 0 - 1],    \* updates when its inputs were read
     task_prec  |-> [n \in TaskNames |-> 0],        \* the precision it ran under
     task_by    |-> [n \in TaskNames |-> 0],        \* the slot of the thread that ran it
     published  |-> <<>>,                           \* the callback calls: their index
     records    |-> <<>>]                           \* the callback calls: their arguments

SqIdle == [pc |-> "off", x |-> NoDec, prec |-> 0, thread_prec |-> 0, s |-> NoDec,
           last_s |-> NoDec, last_none |-> TRUE, steps |-> 0, out |-> NoDec,
           err |-> "none"]
FnIdle == [pc |-> "off", digits |-> 0, total |-> 0, total_next |-> 0, i |-> 0 - 1,
           est |-> 0]

\* main() and its progress thread when they are not followed
DrvIdle == [pc |-> "off", total_iters |-> 0, out |-> <<>>]
MonIdle == [pc |-> "off", i |-> 0, est_digits |-> 0, elapsed |-> 0, rendered |-> FALSE,
            late |-> FALSE]

\* the arguments d and n, the engine at the position at, nothing done yet
InitAt(d, n, at) ==
    /\ digits = d
    /\ n_threads = n
    /\ pc = at
    /\ prec = DefaultPrec
    /\ a = NoDec /\ b = NoDec /\ t = NoDec /\ p = NoDec
    /\ total_iters = 0
    /\ i = 0
    /\ results = [n1 \in TaskNames |-> NoDec]
    /\ pi_str = <<>>
    /\ queue = <<>>
    /\ futures = [n1 \in TaskNames |-> NoFuture]
    /\ workers = [w \in Slots |-> NoWorker]
    /\ idle_sem = 0
    /\ pool_shutdown = FALSE
    /\ cb = [i |-> 0, n |-> 0, est_digits |-> 0, elapsed |-> 0]
    /\ state = [iter |-> 0, digits |-> 0, elapsed |-> 0, threads |-> n, done |-> FALSE]
    /\ hist = NoHist
    /\ ref = [a |-> NoDec, b |-> NoDec, t |-> NoDec, p |-> NoDec, pi_str |-> <<>>]
    /\ err = "none"

\* gauss_legendre_pi(d, n, progress_callback) has just been called
InitRun(d, n) == InitAt(d, n, "start")

\* gauss_legendre_pi is called with digits and n_threads, main() left aside
Init ==
    /\ \E d \in DigitsSet, n \in ThreadsSet : InitRun(d, n)
    /\ sq = SqIdle
    /\ fn = FnIdle
    /\ drv = DrvIdle
    /\ mon = MonIdle

(***************************************************************************)
(* gauss_legendre_pi(digits, n_threads, progress_callback)                 *)
(***************************************************************************)
\* lines 18-25: the precision, a, b, t, p and the round count
Setup ==
    /\ pc = "start"
    /\ prec' = digits + Guard
    /\ a' = DecInt(1)
    /\ b' = DecDiv(DecInt(1), SqrtDecimal(DecInt(2), digits + Guard), digits + Guard)
    /\ t' = Dec(0, <<25>>, 0 - 2)
    /\ p' = DecInt(1)
    /\ total_iters' = TotalIters(digits)
    /\ ref' = [a |-> a', b |-> b', t |-> t', p |-> p', pi_str |-> <<>>]
    /\ pc' = "loop"
    /\ UNCHANGED <<digits, n_threads, i, results, pi_str, queue, futures, workers,
                   idle_sem, pool_shutdown, cb, state, hist, sq, fn,
                   err, drv, mon>>

\* lines 28-30: the next round begins with an executor of its own
NextRound ==
    /\ pc = "loop"
    /\ i < total_iters
    /\ n_threads > 0
    /\ queue' = <<>>
    /\ futures' = [n \in TaskNames |-> NoFuture]
    /\ workers' = [w \in Slots |-> NoWorker]
    /\ idle_sem' = 0
    /\ pool_shutdown' = FALSE
    /\ results' = [n \in TaskNames |-> NoDec]
    /\ hist' = [hist EXCEPT !.task_round = [n \in TaskNames |-> 0 - 1],
                            !.task_read = [n \in TaskNames |-> 0 - 1],
                            !.task_prec = [n \in TaskNames |-> 0],
                            !.task_by = [n \in TaskNames |-> 0]]
    /\ pc' = "submit_a"
    /\ UNCHANGED <<digits, n_threads, prec, a, b, t, p, total_iters, i, pi_str, cb,
                   state, ref, sq, fn,
                   err, drv, mon>>

\* the threads of the executor that were started
Started == {w \in Slots : workers[w].st # "none"}

\* executor.submit: the work item is queued; a thread is started for it unless
\* an idle thread is there to take it or max_workers threads exist already.
\* A new thread has a decimal context of its own, with the default precision.
Submit(task) ==
    /\ queue' = Append(queue, task)
    /\ IF idle_sem > 0
       THEN idle_sem' = idle_sem - 1 /\ UNCHANGED workers
       ELSE /\ UNCHANGED idle_sem
            /\ IF Cardinality(Started) < n_threads
               THEN workers' = [workers EXCEPT ![Cardinality(Started) + 1] =
                                    [st |-> "ready", task |-> NoTask, prec |-> DefaultPrec]]
               ELSE UNCHANGED workers

\* line 31: executor.submit(lambda: (a + b) / 2)
SubmitA ==
    /\ pc = "submit_a"
    /\ Submit([name |-> "a_next", x |-> NoDec])
    /\ hist' = [hist EXCEPT !.task_round["a_next"] = i]
    /\ pc' = "submit_b"
    /\ UNCHANGED <<digits, n_threads, prec, a, b, t, p, total_iters, i, results,
                   pi_str, futures, pool_shutdown, cb, state, ref, sq, fn,
                   err, drv, mon>>

\* line 32: executor.submit(sqrt_decimal, a * b, getcontext()); a * b is
\* computed here, by the engine
SubmitB ==
    /\ pc = "submit_b"
    /\ Submit([name |-> "b_next", x |-> DecMul(a, b, prec)])
    /\ hist' = [hist EXCEPT !.task_round["b_next"] = i,
                            !.task_read["b_next"] = hist.updates]
    /\ pc' = "wait_a"
    /\ UNCHANGED <<digits, n_threads, prec, a, b, t, p, total_iters, i, results,
                   pi_str, futures, pool_shutdown, cb, state, ref, sq, fn,
                   err, drv, mon>>

\* a fut.result() that would not wait
FutureReadyAlways(name) == TRUE

\* a fut.result() that would give the value of a task that raised
FutureReadyOrFailed(name) == futures[name].done

\* a fut.result() that would also wait for the first progress line
FutureReadyWhenRendered(name) ==
    futures[name].done /\ futures[name].exc = "none" /\ mon.rendered

\* fut.result() returns once the task has set its result
FutureReady(name) == futures[name].done /\ futures[name].exc = "none"

\* lines 35-38, the future of a_next
WaitA ==
    /\ pc = "wait_a"
    /\ FutureReady("a_next")
    /\ results' = [results EXCEPT !["a_next"] = futures["a_next"].value]
    /\ pc' = "wait_b"
    /\ UNCHANGED <<digits, n_threads, prec, a, b, t, p, total_iters, i, pi_str, queue,
                   futures, workers, idle_sem, pool_shutdown, cb, state, hist, ref,
                   sq, fn,
                   err, drv, mon>>

\* lines 35-38, the future of b_next; the with block is left then, and
\* executor.shutdown(wait=True) tells the threads to end ...
WaitB ==
    /\ pc = "wait_b"
    /\ FutureReady("b_next")
    /\ results' = [results EXCEPT !["b_next"] = futures["b_next"].value]
    /\ pool_shutdown' = TRUE
    /\ pc' = "join"
    /\ UNCHANGED <<digits, n_threads, prec, a, b, t, p, total_iters, i, pi_str, queue,
                   futures, workers, idle_sem, cb, state, hist, ref, sq, fn,
                   err, drv, mon>>

\* a shutdown that would not wait for the threads
PoolJoinedNoWait == TRUE

\* ... and joins every thread it started
PoolJoined == \A w \in Slots : workers[w].st \in {"none", "gone"}

\* the with block is left: the executor and its threads are no more
Join ==
    /\ pc = "join"
    /\ PoolJoined
    /\ workers' = [w \in Slots |-> NoWorker]
    /\ idle_sem' = 0
    /\ hist' = [hist EXCEPT !.task_by = [n \in TaskNames |-> 0]]
    /\ pc' = "update"
    /\ UNCHANGED <<digits, n_threads, prec, a, b, t, p, total_iters, i, results,
                   pi_str, queue, futures, pool_shutdown, cb, state, ref, sq, fn,
                   err, drv, mon>>

\* line 40: t - p * (a - a_next) ** 2
NewT(t0, p0, a0, a1, pr) ==
    DecSub(t0, DecMul(p0, DecPow2(DecSub(a0, a1, pr), pr), pr), pr)

\* the round with a_next = a1 and b_next = b1
RoundWith(r, a1, b1, pr) ==
    [a |-> a1, b |-> b1, t |-> NewT(r.t, r.p, r.a, a1, pr),
     p |-> DecMul(r.p, DecInt(2), pr), pi_str |-> <<>>]

\* lines 31-43 done by one thread that takes the two tasks in the order of
\* their submission: the thread is new, so (a + b) / 2 is computed under the
\* default precision, and sqrt_decimal then sets the precision pr
SeqRound(r, pr) ==
    RoundWith(r, DecDiv(DecAdd(r.a, r.b, DefaultPrec), DecInt(2), DefaultPrec),
              SqrtDecimal(DecMul(r.a, r.b, pr), pr), pr)

\* lines 40-43 with a = a_next done before t is computed
UpdateAssignFirst ==
    /\ pc = "update"
    /\ a' = results["a_next"]
    /\ t' = NewT(t, p, a', results["a_next"], prec)
    /\ b' = results["b_next"]
    /\ p' = DecMul(p, DecInt(2), prec)
    /\ hist' = [hist EXCEPT !.updates = @ + 1]
    /\ ref' = SeqRound(ref, prec)
    /\ pc' = "publish"
    /\ UNCHANGED <<digits, n_threads, prec, total_iters, i, results, pi_str, queue,
                   futures, workers, idle_sem, pool_shutdown, cb, state, sq, fn,
                   err, drv, mon>>

\* lines 40-43
Update ==
    /\ pc = "update"
    /\ t' = NewT(t, p, a, results["a_next"], prec)
    /\ a' = results["a_next"]
    /\ b' = results["b_next"]
    /\ p' = DecMul(p, DecInt(2), prec)
    /\ hist' = [hist EXCEPT !.updates = @ + 1]
    /\ ref' = SeqRound(ref, prec)
    /\ pc' = "publish"
    /\ UNCHANGED <<digits, n_threads, prec, total_iters, i, results, pi_str, queue,
                   futures, workers, idle_sem, pool_shutdown, cb, state, sq, fn,
                   err, drv, mon>>

\* a callback index counted from 0
CallbackIndexFromZero(k) == k

\* the first argument of the callback: line 48 passes i + 1
CallbackIndex(k) == k + 1

\* lines 45-48: the callback is called with the round just done.  The clock
\* is taken to be too coarse to tell the rounds of a run apart: elapsed is 0.
Publish ==
    /\ pc = "publish"
    /\ cb' = [i |-> CallbackIndex(i), n |-> total_iters,
              est_digits |-> EstDigits(i, total_iters, digits), elapsed |-> 0]
    /\ hist' = [hist EXCEPT !.published = Append(@, CallbackIndex(i)),
                            !.records = Append(@, cb')]
    /\ pc' = "cb_iter"
    /\ UNCHANGED <<digits, n_threads, prec, a, b, t, p, total_iters, i, results,
                   pi_str, queue, futures, workers, idle_sem, pool_shutdown, state,
                   ref, sq, fn,
                   err, drv, mon>>

\* line 96: state['iter'] = i
CbIter ==
    /\ pc = "cb_iter"
    /\ state' = [state EXCEPT !.iter = cb.i]
    /\ pc' = "cb_digits"
    /\ UNCHANGED <<digits, n_threads, prec, a, b, t, p, total_iters, i, results,
                   pi_str, queue, futures, workers, idle_sem, pool_shutdown, cb, hist,
                   ref, sq, fn,
                   err, drv, mon>>

\* line 97: state['digits'] = est_digits
CbDigits ==
    /\ pc = "cb_digits"
    /\ state' = [state EXCEPT !.digits = cb.est_digits]
    /\ pc' = "cb_elapsed"
    /\ UNCHANGED <<digits, n_threads, prec, a, b, t, p, total_iters, i, results,
                   pi_str, queue, futures, workers, idle_sem, pool_shutdown, cb, hist,
                   ref, sq, fn,
                   err, drv, mon>>

\* line 98: state['elapsed'] = elapsed; the callback returns and the round ends
CbElapsed ==
    /\ pc = "cb_elapsed"
    /\ state' = [state EXCEPT !.elapsed = cb.elapsed]
    /\ i' = i + 1
    /\ pc' = "loop"
    /\ UNCHANGED <<digits, n_threads, prec, a, b, t, p, total_iters, results, pi_str,
                   queue, futures, workers, idle_sem, pool_shutdown, cb, hist, ref,
                   sq, fn,
                   err, drv, mon>>

\* lines 49-50: str(+(((a + b) ** 2) / (4 * t)))[:digits + 2]
PiString(a0, b0, t0, pr, d) ==
    Prefix(DecStr(Fix(DecDiv(DecPow2(DecAdd(a0, b0, pr), pr),
                             DecMul(DecInt(4), t0, pr), pr), pr)), d + 2)

Final ==
    /\ pc = "loop"
    /\ i >= total_iters
    /\ pi_str' = PiString(a, b, t, prec, digits)
    /\ ref' = [ref EXCEPT !.pi_str = PiString(ref.a, ref.b, ref.t, prec, digits)]
    /\ pc' = "done"
    /\ UNCHANGED <<digits, n_threads, prec, a, b, t, p, total_iters, i, results, queue,
                   futures, workers, idle_sem, pool_shutdown, cb, state, hist, sq, fn,
                   err, drv, mon>>

(***************************************************************************)
(* The threads of the executor (concurrent.futures.thread._worker): a      *)
(* thread gets a work item from the queue, runs it, which sets the         *)
(* future's result, counts itself idle and goes back to the queue.         *)
(***************************************************************************)
\* a queue that would give the newest work item first
QueueBack(q) == Len(q)

\* the work item a thread gets from the queue: the oldest
QueueFront(q) == 1

\* the queue without its k-th item
QueueWithout(q, k) == SubSeq(q, 1, k - 1) \o SubSeq(q, k + 1, Len(q))

\* work_queue.get(block=True) returns a work item
WorkerTake(w) ==
    /\ workers[w].st = "ready"
    /\ queue # <<>>
    /\ workers' = [workers EXCEPT ![w].st = "run", ![w].task = queue[QueueFront(queue)]]
    /\ queue' = QueueWithout(queue, QueueFront(queue))
    /\ UNCHANGED <<digits, n_threads, pc, prec, a, b, t, p, total_iters, i, results,
                   pi_str, futures, idle_sem, pool_shutdown, cb, state, hist, ref,
                   sq, fn,
                   err, drv, mon>>

\* the lambda of line 31 runs: it reads a and b now, and computes under the
\* precision of the thread it runs on
WorkerRunA(w) ==
    /\ workers[w].st = "run"
    /\ workers[w].task.name = "a_next"
    /\ futures' = [futures EXCEPT !["a_next"] =
           [done |-> TRUE, exc |-> "none",
            value |-> DecDiv(DecAdd(a, b, workers[w].prec), DecInt(2), workers[w].prec)]]
    /\ workers' = [workers EXCEPT ![w].st = "ready", ![w].task = NoTask]
    /\ idle_sem' = idle_sem + 1
    /\ hist' = [hist EXCEPT !.task_read["a_next"] = hist.updates,
                            !.task_prec["a_next"] = workers[w].prec,
                            !.task_by["a_next"] = w]
    /\ UNCHANGED <<digits, n_threads, pc, prec, a, b, t, p, total_iters, i, results,
                   pi_str, queue, pool_shutdown, cb, state, ref, sq, fn,
                   err, drv, mon>>

\* line 9: the precision sqrt_decimal gives the thread it runs on
SqrtPrec(context_prec, thread_prec) == context_prec

\* sqrt_decimal(a * b, context) runs: context is the engine's
WorkerRunB(w) ==
    /\ workers[w].st = "run"
    /\ workers[w].task.name = "b_next"
    /\ futures' = [futures EXCEPT !["b_next"] =
           [done |-> TRUE, exc |-> "none",
            value |-> SqrtDecimal(workers[w].task.x, SqrtPrec(prec, workers[w].prec))]]
    /\ workers' = [workers EXCEPT ![w].st = "ready", ![w].task = NoTask,
                                  ![w].prec = SqrtPrec(prec, workers[w].prec)]
    /\ idle_sem' = idle_sem + 1
    /\ hist' = [hist EXCEPT !.task_prec["b_next"] = SqrtPrec(prec, workers[w].prec),
                            !.task_by["b_next"] = w]
    /\ UNCHANGED <<digits, n_threads, pc, prec, a, b, t, p, total_iters, i, results,
                   pi_str, queue, pool_shutdown, cb, state, ref, sq, fn,
                   err, drv, mon>>

\* after the shutdown a thread that finds no work ends
WorkerExit(w) ==
    /\ workers[w].st = "ready"
    /\ queue = <<>>
    /\ pool_shutdown
    /\ workers' = [workers EXCEPT ![w].st = "gone"]
    /\ UNCHANGED <<digits, n_threads, pc, prec, a, b, t, p, total_iters, i, results,
                   pi_str, queue, futures, idle_sem, pool_shutdown, cb, state, hist,
                   ref, sq, fn,
                   err, drv, mon>>

Next ==
    \/ Setup
    \/ NextRound
    \/ SubmitA
    \/ SubmitB
    \/ WaitA
    \/ WaitB
    \/ Join
    \/ Update
    \/ Publish
    \/ CbIter
    \/ CbDigits
    \/ CbElapsed
    \/ Final
    \/ \E w \in Slots : WorkerTake(w)
    \/ \E w \in Slots : WorkerRunA(w)
    \/ \E w \in Slots : WorkerRunB(w)
    \/ \E w \in Slots : WorkerExit(w)

Spec == Init /\ [][Next]_vars

(***************************************************************************)
(* sqrt_decimal(x, context) followed line by line, on a thread whose       *)
(* decimal context has the default precision when the call begins.         *)
(***************************************************************************)
\* the arguments that are followed: x = c * 10^e under the precision pr
SqrtCoefs == {0 - 4, 0 - 1, 0, 1, 2, 3, 4, 7, 16}
SqrtExps == {0 - 2, 0}
SqrtPrecs == {1, 2, 3, 11, 20}

\* the passes of the loop that are followed
MaxSteps == 30

SqrtCall(c, e, pr) ==
    [pc |-> "call", x |-> Dec(IF c < 0 THEN 1 ELSE 0, NFromInt(IF c < 0 THEN 0 - c ELSE c), e),
     prec |-> pr, thread_prec |-> DefaultPrec, s |-> NoDec, last_s |-> NoDec,
     last_none |-> TRUE, steps |-> 0, out |-> NoDec, err |-> "none"]

SqrtInit ==
    /\ InitRun(1, 1)
    /\ fn = FnIdle
    /\ drv = DrvIdle
    /\ mon = MonIdle
    /\ \E c \in SqrtCoefs, e \in SqrtExps, pr \in SqrtPrecs : sq = SqrtCall(c, e, pr)

\* lines 9-11: getcontext().prec = context.prec; s = x / 2; last_s = None
SqrtEnter ==
    /\ sq.pc = "call"
    /\ sq' = [sq EXCEPT !.thread_prec = SqrtPrec(sq.prec, sq.thread_prec),
                        !.s = NewtonStart(sq.x, SqrtPrec(sq.prec, sq.thread_prec)),
                        !.last_none = TRUE,
                        !.pc = "test"]
    /\ UNCHANGED <<digits, n_threads, pc, prec, a, b, t, p, total_iters, i, results,
                   pi_str, queue, futures, workers, idle_sem, pool_shutdown, cb, state,
                   hist, ref, fn,
                   err, drv, mon>>

\* line 12: while last_s != s
SqrtTest ==
    /\ sq.pc = "test"
    /\ sq' = [sq EXCEPT !.pc = IF sq.last_none \/ ~DecEq(sq.last_s, sq.s)
                               THEN "body" ELSE "return"]
    /\ UNCHANGED <<digits, n_threads, pc, prec, a, b, t, p, total_iters, i, results,
                   pi_str, queue, futures, workers, idle_sem, pool_shutdown, cb, state,
                   hist, ref, fn,
                   err, drv, mon>>

\* what x / s raises when s is zero
DivisionError(x) == IF IsZero(x) THEN "InvalidOperation" ELSE "DivisionByZero"

\* lines 13-14: last_s = s; s = (s + x / s) / 2.  The division by a zero s
\* raises, and the exception leaves sqrt_decimal.
SqrtBody ==
    /\ sq.pc = "body"
    /\ sq.steps < MaxSteps
    /\ IF IsZero(sq.s)
       THEN sq' = [sq EXCEPT !.last_s = sq.s, !.last_none = FALSE,
                             !.err = DivisionError(sq.x), !.pc = "raised"]
       ELSE sq' = [sq EXCEPT !.last_s = sq.s, !.last_none = FALSE,
                             !.s = NewtonStep(sq.s, sq.x, sq.thread_prec),
                             !.steps = sq.steps + 1, !.pc = "test"]
    /\ UNCHANGED <<digits, n_threads, pc, prec, a, b, t, p, total_iters, i, results,
                   pi_str, queue, futures, workers, idle_sem, pool_shutdown, cb, state,
                   hist, ref, fn,
                   err, drv, mon>>

\* line 15: return +s
SqrtReturn ==
    /\ sq.pc = "return"
    /\ sq' = [sq EXCEPT !.out = Fix(sq.s, sq.thread_prec), !.pc = "done"]
    /\ UNCHANGED <<digits, n_threads, pc, prec, a, b, t, p, total_iters, i, results,
                   pi_str, queue, futures, workers, idle_sem, pool_shutdown, cb, state,
                   hist, ref, fn,
                   err, drv, mon>>

SqrtNext ==
    \/ SqrtEnter
    \/ SqrtTest
    \/ SqrtBody
    \/ SqrtReturn

SqrtSpec == SqrtInit /\ [][SqrtNext]_vars

(***************************************************************************)
(* The round count of lines 24-25 and the estimates of line 47 for one     *)
(* value of digits, round after round.                                     *)
(***************************************************************************)
\* the values of digits that are followed: 1..MaxDigits
MaxDigits == 300

FnInit ==
    /\ InitRun(1, 1)
    /\ sq = SqIdle
    /\ drv = DrvIdle
    /\ mon = MonIdle
    /\ \E d \in 1..MaxDigits :
           fn = [pc |-> "total", digits |-> d, total |-> 0, total_next |-> 0,
                 i |-> 0 - 1, est |-> 0]

\* lines 24-25 for digits, and for digits + 1 to compare with
FnTotal ==
    /\ fn.pc = "total"
    /\ fn' = [fn EXCEPT !.total = TotalIters(fn.digits),
                        !.total_next = TotalIters(fn.digits + 1),
                        !.pc = "est"]
    /\ UNCHANGED <<digits, n_threads, pc, prec, a, b, t, p, total_iters, i, results,
                   pi_str, queue, futures, workers, idle_sem, pool_shutdown, cb, state,
                   hist, ref, sq,
                   err, drv, mon>>

\* line 47 in the next round of "for i in range(total_iters)"
FnEst ==
    /\ fn.pc = "est"
    /\ fn.i + 1 < fn.total
    /\ fn' = [fn EXCEPT !.i = fn.i + 1,
                        !.est = EstDigits(fn.i + 1, fn.total, fn.digits)]
    /\ UNCHANGED <<digits, n_threads, pc, prec, a, b, t, p, total_iters, i, results,
                   pi_str, queue, futures, workers, idle_sem, pool_shutdown, cb, state,
                   hist, ref, sq,
                   err, drv, mon>>

FnNext ==
    \/ FnTotal
    \/ FnEst

FnSpec == FnInit /\ [][FnNext]_vars

(***************************************************************************)
(* A task that raises.  concurrent.futures keeps what a work item raises   *)
(* in its future (Future.set_exception), and fut.result() raises it again  *)
(* in the engine; nothing in lines 29-38 catches it, so it leaves the with *)
(* block, whose __exit__ joins the threads, and then gauss_legendre_pi.    *)
(***************************************************************************)
\* the runs that are followed with a task that may raise
FaultDigitsSet == {1, 5}
FaultThreadsSet == {1, 2}

\* the work item of thread w raises instead of returning
WorkerRaise(w) ==
    /\ workers[w].st = "run"
    /\ futures' = [futures EXCEPT ![workers[w].task.name] =
           [done |-> TRUE, exc |-> "TaskError", value |-> NoDec]]
    /\ workers' = [workers EXCEPT ![w].st = "ready", ![w].task = NoTask]
    /\ idle_sem' = idle_sem + 1
    /\ hist' = [hist EXCEPT !.task_by[workers[w].task.name] = w]
    /\ UNCHANGED <<digits, n_threads, pc, prec, a, b, t, p, total_iters, i, results,
                   pi_str, queue, pool_shutdown, cb, state, ref, sq, fn,
                   err, drv, mon>>

\* fut.result() raises what the task raised
FutureRaises(name) == futures[name].done /\ futures[name].exc # "none"

\* line 36 raises: results[name] is not assigned, the with block is left
ResultRaises(name, at) ==
    /\ pc = at
    /\ FutureRaises(name)
    /\ err' = futures[name].exc
    /\ pool_shutdown' = TRUE
    /\ pc' = "unwind"
    /\ UNCHANGED <<digits, n_threads, prec, a, b, t, p, total_iters, i, results,
                   pi_str, queue, futures, workers, idle_sem, cb, state, hist, ref,
                   sq, fn, drv, mon>>

\* the executor has joined its threads: the exception leaves gauss_legendre_pi
Unwind ==
    /\ pc = "unwind"
    /\ PoolJoined
    /\ workers' = [w \in Slots |-> NoWorker]
    /\ idle_sem' = 0
    /\ pc' = "raised"
    /\ UNCHANGED <<digits, n_threads, prec, a, b, t, p, total_iters, i, results,
                   pi_str, queue, futures, pool_shutdown, cb, state, hist, ref, sq, fn,
                   err, drv, mon>>

\* line 29 with n_threads <= 0: ThreadPoolExecutor raises ValueError
PoolError ==
    /\ pc = "loop"
    /\ i < total_iters
    /\ n_threads <= 0
    /\ err' = "ValueError"
    /\ pc' = "raised"
    /\ UNCHANGED <<digits, n_threads, prec, a, b, t, p, total_iters, i, results,
                   pi_str, queue, futures, workers, idle_sem, pool_shutdown, cb, state,
                   hist, ref, sq, fn, drv, mon>>

FaultInit ==
    /\ \E d \in FaultDigitsSet, n \in FaultThreadsSet : InitRun(d, n)
    /\ sq = SqIdle
    /\ fn = FnIdle
    /\ drv = DrvIdle
    /\ mon = MonIdle

FaultNext ==
    \/ Setup
    \/ NextRound
    \/ SubmitA
    \/ SubmitB
    \/ WaitA
    \/ WaitB
    \/ ResultRaises("a_next", "wait_a")
    \/ ResultRaises("b_next", "wait_b")
    \/ Join
    \/ Unwind
    \/ Update
    \/ Publish
    \/ CbIter
    \/ CbDigits
    \/ CbElapsed
    \/ Final
    \/ \E w \in Slots : WorkerTake(w)
    \/ \E w \in Slots : WorkerRunA(w)
    \/ \E w \in Slots : WorkerRunB(w)
    \/ \E w \in Slots : WorkerRaise(w)
    \/ \E w \in Slots : WorkerExit(w)

FaultSpec == FaultInit /\ [][FaultNext]_vars

(***************************************************************************)
(* main(): the main thread computes the round count, starts the daemon     *)
(* thread progress_thread_fn, calls gauss_legendre_pi with a callback that *)
(* writes the progress dict, sets state['done'], sleeps and prints.  The   *)
(* progress thread reads the dict key by key, prints a line and sleeps,    *)
(* until it finds state['done'] set.  Nothing but the dict is shared, and  *)
(* no lock or join orders the two threads: every interleaving of their     *)
(* steps is followed.                                                      *)
(***************************************************************************)
\* the arguments of the runs of main() that are followed
MainDigitsSet == {0 - 1, 0, 1}
MainThreadsSet == {0, 1}

\* what main() and the progress thread leave alone in the engine
engine == <<prec, a, b, t, p, total_iters, i, results, pi_str, queue, futures,
            workers, idle_sem, pool_shutdown, cb, hist, ref>>

MainInit ==
    /\ \E d \in MainDigitsSet, n \in MainThreadsSet : InitAt(d, n, "off")
    /\ sq = SqIdle
    /\ fn = FnIdle
    /\ drv = [pc |-> "args", total_iters |-> 0, out |-> <<>>]
    /\ mon = MonIdle

\* lines 78-86: the progress dict, and the round count; for digits < 0
\* digits**0.5 is a complex number, and int() of it raises TypeError
DrvTotal ==
    /\ drv.pc = "args"
    /\ IF digits < 0
       THEN err' = "TypeError" /\ drv' = [drv EXCEPT !.pc = "crashed"]
       ELSE /\ drv' = [drv EXCEPT !.total_iters = TotalIters(digits), !.pc = "thread"]
            /\ UNCHANGED err
    /\ UNCHANGED <<digits, n_threads, pc, engine, state, sq, fn, mon>>

\* lines 88-93: the progress thread is started
DrvStart ==
    /\ drv.pc = "thread"
    /\ mon' = [mon EXCEPT !.pc = "test"]
    /\ drv' = [drv EXCEPT !.pc = "call"]
    /\ UNCHANGED <<digits, n_threads, pc, engine, state, sq, fn, err>>

\* lines 100-101: gauss_legendre_pi is called
DrvCall ==
    /\ drv.pc = "call"
    /\ pc = "off"
    /\ pc' = "start"
    /\ drv' = [drv EXCEPT !.pc = "in_call"]
    /\ UNCHANGED <<digits, n_threads, engine, state, sq, fn, err, mon>>

\* lines 101-103: gauss_legendre_pi has returned; state['done'] = True
DrvDone ==
    /\ drv.pc = "in_call"
    /\ pc = "done"
    /\ state' = [state EXCEPT !.done = TRUE]
    /\ drv' = [drv EXCEPT !.pc = "sleep"]
    /\ UNCHANGED <<digits, n_threads, pc, engine, sq, fn, err, mon>>

\* line 104: time.sleep(0.3) returns
DrvSleep ==
    /\ drv.pc = "sleep"
    /\ drv' = [drv EXCEPT !.pc = "print_time"]
    /\ UNCHANGED <<digits, n_threads, pc, engine, state, sq, fn, err, mon>>

\* line 106: the line with the time the run took
DrvPrintTime ==
    /\ drv.pc = "print_time"
    /\ drv' = [drv EXCEPT !.out = Append(@, <<"time">>), !.pc = "print_pi"]
    /\ UNCHANGED <<digits, n_threads, pc, engine, state, sq, fn, err, mon>>

\* line 107: the lines with pi
DrvPrintPi ==
    /\ drv.pc = "print_pi"
    /\ drv' = [drv EXCEPT !.out = Append(@, pi_str), !.pc = "exit"]
    /\ UNCHANGED <<digits, n_threads, pc, engine, state, sq, fn, err, mon>>

\* the progress thread when the interpreter exits: a daemon thread is not
\* waited for
MonAtExit(m) == IF m.pc \in {"off", "exited"} THEN m ELSE [m EXCEPT !.pc = "killed"]

\* main() returns and the interpreter exits
DrvExit ==
    /\ drv.pc = "exit"
    /\ drv' = [drv EXCEPT !.pc = "end"]
    /\ mon' = MonAtExit(mon)
    /\ UNCHANGED <<digits, n_threads, pc, engine, state, sq, fn, err>>

\* line 101 raises what gauss_legendre_pi raised: main() has no handler, the
\* interpreter exits with the traceback
DrvCrash ==
    /\ drv.pc = "in_call"
    /\ pc = "raised"
    /\ drv' = [drv EXCEPT !.pc = "crashed"]
    /\ mon' = MonAtExit(mon)
    /\ UNCHANGED <<digits, n_threads, pc, engine, state, sq, fn, err>>

(***************************************************************************)
(* progress_thread_fn(state, total_digits, total_iters)                    *)
(***************************************************************************)
\* line 59: while not state['done']
MonTest ==
    /\ mon.pc = "test"
    /\ mon' = [mon EXCEPT !.pc = IF state.done THEN "newline" ELSE "read_iter"]
    /\ UNCHANGED <<digits, n_threads, pc, engine, state, sq, fn, err, drv>>

\* line 60 done as a read that would also reset the key
MonTakeIter ==
    /\ mon.pc = "read_iter"
    /\ mon' = [mon EXCEPT !.i = state.iter, !.pc = "read_digits"]
    /\ state' = [state EXCEPT !.iter = 0]
    /\ UNCHANGED <<digits, n_threads, pc, engine, sq, fn, err, drv>>

\* line 60: i = state['iter']
MonReadIter ==
    /\ mon.pc = "read_iter"
    /\ mon' = [mon EXCEPT !.i = state.iter, !.pc = "read_digits"]
    /\ UNCHANGED <<digits, n_threads, pc, engine, state, sq, fn, err, drv>>

\* line 61: est_digits = state['digits']
MonReadDigits ==
    /\ mon.pc = "read_digits"
    /\ mon' = [mon EXCEPT !.est_digits = state.digits, !.pc = "read_elapsed"]
    /\ UNCHANGED <<digits, n_threads, pc, engine, state, sq, fn, err, drv>>

\* line 62: elapsed = state['elapsed']
MonReadElapsed ==
    /\ mon.pc = "read_elapsed"
    /\ mon' = [mon EXCEPT !.elapsed = state.elapsed, !.pc = "print"]
    /\ UNCHANGED <<digits, n_threads, pc, engine, state, sq, fn, err, drv>>

\* lines 63-68: the progress line is printed from the three locals, which
\* keep what was printed until the next pass of the loop reads again; late
\* tells that main() had printed its first line before
MonPrint ==
    /\ mon.pc = "print"
    /\ mon' = [mon EXCEPT !.rendered = TRUE,
                          !.late = mon.late \/ drv.out # <<>>,
                          !.pc = "sleep"]
    /\ UNCHANGED <<digits, n_threads, pc, engine, state, sq, fn, err, drv>>

\* line 69: time.sleep(0.2) returns
MonSleep ==
    /\ mon.pc = "sleep"
    /\ mon' = [mon EXCEPT !.pc = "test"]
    /\ UNCHANGED <<digits, n_threads, pc, engine, state, sq, fn, err, drv>>

\* line 70: the loop is left, print() ends the progress line, the thread ends
MonNewline ==
    /\ mon.pc = "newline"
    /\ mon' = [mon EXCEPT !.pc = "exited"]
    /\ UNCHANGED <<digits, n_threads, pc, engine, state, sq, fn, err, drv>>

\* the steps of the main thread in main()
DrvNext ==
    \/ DrvTotal
    \/ DrvStart
    \/ DrvCall
    \/ DrvDone
    \/ DrvSleep
    \/ DrvPrintTime
    \/ DrvPrintPi
    \/ DrvExit
    \/ DrvCrash

\* the steps of the main thread in gauss_legendre_pi
EngineNext ==
    \/ Setup
    \/ NextRound
    \/ PoolError
    \/ SubmitA
    \/ SubmitB
    \/ WaitA
    \/ WaitB
    \/ Join
    \/ Update
    \/ Publish
    \/ CbIter
    \/ CbDigits
    \/ CbElapsed
    \/ Final

\* the steps of the threads of the executor
PoolNext ==
    \/ \E w \in Slots : WorkerTake(w)
    \/ \E w \in Slots : WorkerRunA(w)
    \/ \E w \in Slots : WorkerRunB(w)
    \/ \E w \in Slots : WorkerExit(w)

\* the steps of the progress thread
MonNext ==
    \/ MonTest
    \/ MonReadIter
    \/ MonReadDigits
    \/ MonReadElapsed
    \/ MonPrint
    \/ MonSleep
    \/ MonNewline

MainNext ==
    \/ DrvNext
    \/ EngineNext
    \/ PoolNext
    \/ MonNext

MainSpec == MainInit /\ [][MainNext]_vars

\* the steps of the main thread
MainThreadNext == DrvNext \/ EngineNext

\* the main thread can make a step: it is not waiting in fut.result() of
\* line 36 nor in the shutdown of the executor, and has not ended
MainThreadReady ==
    \/ drv.pc \in {"args", "thread", "call", "sleep", "print_time", "print_pi", "exit"}
    \/ /\ drv.pc = "in_call"
       /\ \/ pc \in {"start", "loop", "submit_a", "submit_b", "update", "publish",
                     "cb_iter", "cb_digits", "cb_elapsed", "done", "raised"}
          \/ pc = "wait_a" /\ FutureReady("a_next")
          \/ pc = "wait_b" /\ FutureReady("b_next")
          \/ pc = "join" /\ PoolJoined

\* a thread of the executor can make a step: it has a work item to run, or to
\* take from the queue, or has been told to end
PoolReady ==
    \E w \in Slots :
        \/ workers[w].st = "run"
        \/ workers[w].st = "ready" /\ (queue # <<>> \/ pool_shutdown)

\* The main thread and the threads of the executor go on when they can: weak
\* fairness of MainThreadNext and of PoolNext.  Of the progress thread nothing
\* is assumed.  WF_vars(A) is <>[](ENABLED <<A>>_vars) => []<><<A>>_vars, and
\* it is written here with ENABLED <<A>>_vars spelt out as the state predicates
\* above.
LiveSpec ==
    /\ MainSpec
    /\ []<>(~MainThreadReady) \/ []<><<MainThreadNext>>_vars
    /\ []<>(~PoolReady) \/ []<><<PoolNext>>_vars

(***************************************************************************)
(* Properties of the run of the engine (Spec).                             *)
(***************************************************************************)
\* the engine is past the update of round i and before the end of the round
AfterUpdate == pc \in {"publish", "cb_iter", "cb_digits", "cb_elapsed"}

\* the engine is in round i, its two tasks submitted
TasksSubmitted == pc \in {"wait_a", "wait_b", "join", "update"} \/ AfterUpdate

\* C1: In every round both tasks are submitted, a, b, t, p are updated once,
\* and only after both tasks have completed and their results have been
\* fetched; a task reads its inputs while the updates done number exactly the
\* round it belongs to (so it reads the a and b of its round), and no task is
\* submitted before the updates of all earlier rounds are done.
C1_JoinBarrier ==
    /\ hist.updates = IF AfterUpdate THEN i + 1 ELSE i
    /\ TasksSubmitted => \A n \in TaskNames : hist.task_round[n] = i
    /\ \A n \in TaskNames :
           /\ hist.task_round[n] <= hist.updates
           /\ hist.task_read[n] \in {0 - 1, hist.task_round[n]}
           /\ futures[n].done => hist.task_read[n] = hist.task_round[n]
    /\ pc = "update" \/ AfterUpdate =>
           \A n \in TaskNames : futures[n].done /\ results[n] = futures[n].value

\* a round after the first in which sqrt_decimal has completed on one thread
\* while the lambda has not yet completed on the other, the engine waiting
C1_Witness ==
    /\ i > 0
    /\ pc = "wait_a"
    /\ futures["b_next"].done
    /\ ~futures["a_next"].done
    /\ hist.task_read["a_next"] = 0 - 1

\* C2: Whatever the number of threads and whatever the order in which the
\* threads take and run the tasks, a, b, t, p after every round and the
\* string returned are those of the reference run ref, in which one thread
\* runs the tasks in the order of their submission; ref depends on digits
\* alone, so two runs with the same digits agree with each other.
C2_SameResult ==
    /\ a = ref.a /\ b = ref.b /\ t = ref.t /\ p = ref.p
    /\ pi_str = ref.pi_str

\* the last round of a run with 8 threads allowed, in which the second thread
\* ran the lambda and the first sqrt_decimal, the rounds before it agreeing
\* with the reference
C2_Witness ==
    /\ n_threads = 8
    /\ i = total_iters - 1
    /\ pc = "join"
    /\ hist.task_by["a_next"] = 2
    /\ hist.task_by["b_next"] = 1
    /\ a = ref.a /\ b = ref.b

\* C3: every operation rounds to digits + 10 digits: the engine's precision
\* is digits + 10 from the setup on, and each task ran under digits + 10.
C3_WorkingPrecision ==
    /\ pc # "start" => prec = digits + Guard
    /\ \A n \in TaskNames : hist.task_prec[n] \in {0, digits + Guard}

\* the first 52 characters of the decimal expansion of pi
PiChars ==
    <<"3", ".", "1", "4", "1", "5", "9", "2", "6", "5", "3", "5", "8", "9",
      "7", "9", "3", "2", "3", "8", "4", "6", "2", "6", "4", "3", "3", "8",
      "3", "2", "7", "9", "5", "0", "2", "8", "8", "4", "1", "9", "7", "1",
      "6", "9", "3", "9", "9", "3", "7", "5", "1", "0">>

\* C4: the string returned has digits + 2 characters and is the beginning of
\* the decimal expansion of pi.
C4_PiPrefix == pc = "done" => pi_str = Prefix(PiChars, digits + 2)

\* C7: the callback is called once per round, after the update of the round,
\* with the indices 1, 2, ... in order, none above total_iters, and the last
\* call before the return has the index total_iters.
C7_OneSnapshotPerRound ==
    /\ \A k \in 1..Len(hist.published) : hist.published[k] = k
    /\ Len(hist.published) =
           IF pc \in {"cb_iter", "cb_digits", "cb_elapsed"} THEN i + 1 ELSE i
    /\ Len(hist.published) <= hist.updates
    /\ pc # "start" => Len(hist.published) <= total_iters
    /\ pc \in {"cb_iter", "cb_digits", "cb_elapsed"} =>
           cb.i = Len(hist.published) /\ cb.n = total_iters
    /\ pc = "done" => Len(hist.published) = total_iters

\* the run for 50 digits has returned after its 17 rounds
C7_Witness ==
    /\ pc = "done"
    /\ digits = 50
    /\ Len(hist.published) = 17
    /\ hist.published[17] = 17

(***************************************************************************)
(* Properties of the round count and of the estimates (FnSpec).            *)
(***************************************************************************)
\* C5 as the specification has it: the round count is 2.5 * sqrt(digits)
\* rounded to the nearest integer k (either neighbour for a half), brought
\* into 10..40.
C5_Rounded ==
    fn.pc = "est" =>
        \E k \in 0..(fn.digits + 2) :
            /\ (2 * k - 1) * (2 * k - 1) <= 25 * fn.digits
            /\ 25 * fn.digits <= (2 * k + 1) * (2 * k + 1)
            /\ fn.total = IF k < 10 THEN 10 ELSE IF k > 40 THEN 40 ELSE k

\* C5, amended: the round count is the integer part k of 2.5 * sqrt(digits),
\* that is 4 k^2 <= 25 digits < 4 (k + 1)^2, brought into 10..40.
C5_Truncated ==
    fn.pc = "est" =>
        \E k \in 0..(fn.digits + 2) :
            /\ 4 * k * k <= 25 * fn.digits
            /\ 25 * fn.digits < 4 * (k + 1) * (k + 1)
            /\ fn.total = IF k < 10 THEN 10 ELSE IF k > 40 THEN 40 ELSE k

\* digits = 18: 2.5 * sqrt(18) = 10.6..., and the round count is 10
C5_Witness == fn.pc = "est" /\ fn.digits = 18 /\ fn.total = 10

\* C6: the round count lies in 10..40 and does not decrease from digits to
\* digits + 1 (hence not from any digits to any larger one).
C6_MonotoneInRange ==
    fn.pc = "est" =>
        /\ 10 <= fn.total /\ fn.total <= 40
        /\ fn.total <= fn.total_next

\* digits = 255 has 39 rounds and digits = 256 has 40, the largest count
C6_Witness == fn.pc = "est" /\ fn.digits = 255 /\ fn.total = 39 /\ fn.total_next = 40

\* C8 as the specification has it: the estimate of round i is
\* (i + 1) * digits / total rounded to the nearest integer (either neighbour
\* for a half).
C8_Rounded ==
    fn.i >= 0 =>
        /\ 2 * fn.total * fn.est - fn.total <= 2 * (fn.i + 1) * fn.digits
        /\ 2 * (fn.i + 1) * fn.digits <= 2 * fn.total * fn.est + fn.total

\* C8, amended: the estimate of round i is the integer part q of
\* (i + 1) * digits / total, or q - 1 in some of the cases in which the
\* quotient is q exactly; in the last round it is digits.
C8_Truncated ==
    fn.i >= 0 =>
        /\ \/ fn.est = ((fn.i + 1) * fn.digits) \div fn.total
           \/ /\ ((fn.i + 1) * fn.digits) % fn.total = 0
              /\ fn.est = (((fn.i + 1) * fn.digits) \div fn.total) - 1
        /\ fn.i + 1 = fn.total => fn.est = fn.digits

\* digits = 92, round 12 of 23: 13 / 23 * 92 is 52 exactly, the estimate is 51
C8_Witness == fn.digits = 92 /\ fn.total = 23 /\ fn.i = 12 /\ fn.est = 51

(***************************************************************************)
(* Properties of sqrt_decimal (SqrtSpec).                                  *)
(***************************************************************************)
\* the passes beyond the precision that count as "a small constant"
CapSlack == 12

\* C9: for x > 0 the loop makes precision + CapSlack passes at most, or the
\* call ends with ConvergenceFailure.
C9_Capped ==
    DecPos(sq.x) => sq.steps <= sq.prec + CapSlack \/ sq.err = "ConvergenceFailure"

\* C10: for x <= 0 the call makes no pass of the loop, returns nothing, and
\* what it raises is DomainError.
C10_DomainError ==
    sq.pc # "off" /\ ~DecPos(sq.x) =>
        /\ sq.steps = 0
        /\ sq.pc # "done"
        /\ sq.pc = "raised" => sq.err = "DomainError"


(***************************************************************************)
(* More properties of the run of the engine (Spec, FaultSpec).             *)
(***************************************************************************)
\* a task of the round has raised
TaskFailed == \E n \in TaskNames : futures[n].exc # "none"

\* C12: once a task of round i has raised, a, b, t, p are not updated for
\* round i, nothing is published for it, no later round begins, no value
\* stands in for the missing result, no string is returned, and what leaves
\* gauss_legendre_pi is what the task raised.
C12_AbortOnFailure ==
    TaskFailed =>
        /\ hist.updates = i
        /\ Len(hist.published) = i
        /\ pc \in {"submit_b", "wait_a", "wait_b", "unwind", "raised"}
        /\ \A n \in TaskNames :
               futures[n].exc # "none" =>
                   hist.task_round[n] = i /\ results[n] = NoDec
        /\ pi_str = <<>>
        /\ pc = "raised" => err = "TaskError"

\* sqrt_decimal has raised in the fourth round after the lambda had returned:
\* the exception has left gauss_legendre_pi
C12_Witness ==
    /\ pc = "raised"
    /\ err = "TaskError"
    /\ i = 3
    /\ futures["b_next"].exc # "none"
    /\ futures["a_next"].exc = "none"
    /\ results["a_next"] = futures["a_next"].value
    /\ results["b_next"] = NoDec

\* C18: the update of a round computes t from the a and the p of before the
\* round, a and b become the results of the round's two tasks, p doubles,
\* and p is 2^k after k updates.
C18_UpdateOrder ==
    [][hist'.updates # hist.updates =>
          /\ t' = DecSub(t, DecMul(p, DecPow2(DecSub(a, futures["a_next"].value, prec),
                                              prec), prec), prec)
          /\ a' = futures["a_next"].value
          /\ b' = futures["b_next"].value
          /\ p' = DecMul(p, DecInt(2), prec)
          /\ DecEq(p', DecInt(2 ^ (hist.updates + 1)))
          /\ hist'.updates = hist.updates + 1]_vars

\* the third update of the run for 5 digits is done
C18_Witness ==
    /\ pc = "publish"
    /\ digits = 5
    /\ hist.updates = 3
    /\ p = DecInt(8)
    /\ a = futures["a_next"].value
    /\ b = futures["b_next"].value
    /\ ~DecEq(t, Dec(0, <<25>>, 0 - 2))

\* the threads that are running a task
Running == {w \in Slots : workers[w].st = "run"}

\* C20: the tasks queued or running are two at most, the threads started are
\* no more than two and no more than n_threads; when the update of the round
\* begins the queue is empty and every thread of the round's executor has
\* ended, and none exists outside the rounds.
C20_TwoInFlight ==
    /\ [](/\ Len(queue) + Cardinality(Running) <= 2
          /\ Cardinality(Started) <= Min(n_threads, 2)
          /\ pc \in {"start", "loop", "update", "done"} \/ AfterUpdate =>
                 queue = <<>> /\ Started = {})
    /\ [][pc' = "update" /\ pc # "update" =>
              /\ queue = <<>>
              /\ \A w \in Slots : workers[w].st \in {"none", "gone"}
              /\ \A n \in TaskNames : futures[n].done]_vars

\* 8 threads allowed: two threads run the two tasks of the round at once
C20_Witness ==
    /\ n_threads = 8
    /\ Cardinality(Running) = 2
    /\ Cardinality(Started) = 2
    /\ queue = <<>>

(***************************************************************************)
(* More properties of sqrt_decimal (SqrtSpec).                             *)
(***************************************************************************)
\* the square root of c * 10^e, c at least 2 pr + 2 digits long and e even:
\* the integer square root of c followed by a digit that tells whether
\* something is left, rounded to pr digits
RefSqrtOf(c, r, e, pr) ==
    IF NCmp(NMul(r, r), c) = 0
    THEN Fix(Dec(0, r, e \div 2), pr)
    ELSE Fix(Dec(0, NAdd(NShl10(r, 1), <<1>>), (e \div 2) - 1), pr)

\* the integer square root of c, found from 10^(half the digits of c, rounded up)
RefISqrt(c) == NISqrtFrom(c, NShl10(<<1>>, (NDigits(c) + 1) \div 2))

RefSqrtAt(x, k, pr) ==
    RefSqrtOf(NShl10(x.coef, k), RefISqrt(NShl10(x.coef, k)), x.exp - k, pr)

RefSqrtShift(x, k) == k + ((x.exp - k) % 2)

\* the square root of x > 0 correctly rounded to pr digits
RefSqrt(x, pr) ==
    RefSqrtAt(x, RefSqrtShift(x, Max(0, 2 * pr + 2 - NDigits(x.coef))), pr)

\* C15: for x > 0 what sqrt_decimal returns is the square root of x rounded
\* to the precision.
C15_AgreesWithReference ==
    sq.pc = "done" /\ DecPos(sq.x) => DecEq(sq.out, RefSqrt(sq.x, sq.prec))

(***************************************************************************)
(* Properties of main() and its progress thread (MainSpec, LiveSpec).      *)
(***************************************************************************)
\* arguments the specification has rejected
BadArgs == digits <= 0 \/ n_threads <= 0

\* C11: with digits <= 0 or n_threads <= 0 the run ends with InvalidArgument
\* and nothing is done before: the precision is not set, no square root is
\* computed, no round is done, no executor thread and no progress thread is
\* started, and no string is produced.
C11_FailFast ==
    BadArgs =>
        /\ prec = DefaultPrec
        /\ b = NoDec
        /\ pc = "off"
        /\ hist.updates = 0
        /\ Started = {}
        /\ mon.pc = "off"
        /\ pi_str = <<>>
        /\ drv.pc \in {"args", "crashed"}
        /\ drv.pc = "crashed" => err = "InvalidArgument"

\* the progress line printed last, while the locals still hold it
LineIs(rec) == mon.i = rec.i /\ mon.est_digits = rec.est_digits /\ mon.elapsed = rec.elapsed

\* C13: a progress line that has just been printed shows the initial record
\* or the three arguments of one call of the callback.
C13_WholeRecord ==
    mon.pc = "sleep" =>
        \/ LineIs([i |-> 0, est_digits |-> 0, elapsed |-> 0])
        \/ \E k \in 1..Len(hist.records) : LineIs(hist.records[k])

\* C14: when the progress thread ends in a run that has returned, the line it
\* printed last shows the last round and all the digits.
C14_FinalRender ==
    mon.pc = "exited" /\ pc = "done" =>
        /\ mon.rendered
        /\ mon.i = total_iters
        /\ mon.est_digits = digits

\* C16: with digits >= 1 and n_threads >= 1, the main thread and the
\* executor's threads going on when they can, gauss_legendre_pi returns,
\* whatever the progress thread does or does not; it returns after
\* total_iters updates, and never are there more.
C16_ReachesDone ==
    /\ (digits >= 1 /\ n_threads >= 1) ~> (pc = "done")
    /\ [](digits >= 1 /\ n_threads >= 1 =>
              /\ hist.updates <= total_iters
              /\ pc = "done" => /\ hist.updates = total_iters
                                /\ i = total_iters
                                /\ total_iters = TotalIters(digits))

\* gauss_legendre_pi has returned after its 10 rounds and the progress
\* thread, started before the call, has not made a step
C16_Witness ==
    /\ digits = 1
    /\ n_threads = 1
    /\ pc = "done"
    /\ hist.updates = 10
    /\ mon.pc = "test"
    /\ ~mon.rendered

\* C17: a step of the progress thread leaves a, b, t, p, the round counter,
\* the engine's position and the progress dict as they are; the keys iter,
\* digits, elapsed change only in the callback, and done only in main() after
\* gauss_legendre_pi has returned.
C17_Observer ==
    [][/\ mon' # mon /\ drv' = drv =>
              UNCHANGED <<a, b, t, p, i, pc, total_iters, state>>
       /\ MonNext => UNCHANGED <<a, b, t, p, i, pc, total_iters, state>>
       /\ \/ state'.iter # state.iter
          \/ state'.digits # state.digits
          \/ state'.elapsed # state.elapsed
          => pc \in {"cb_iter", "cb_digits", "cb_elapsed"} /\ mon' = mon
       /\ state'.done # state.done =>
              pc = "done" /\ drv.pc = "in_call" /\ mon' = mon]_vars

\* the progress thread has printed the line of round 5 and the engine is in
\* its eighth round
C17_Witness ==
    /\ mon.pc = "sleep"
    /\ mon.rendered
    /\ mon.i = 5
    /\ state.iter = 7
    /\ pc = "update"

\* C19: once main() has printed its first line the progress thread has ended,
\* and it has printed no progress line after that.
C19_MonitorGone ==
    drv.out # <<>> => mon.pc = "exited" /\ ~mon.late
====
